---- MODULE Spec2Model ----
(***************************************************************************)
(* Arrow trajectory simulator: the integrator simulate() of APP.py and of  *)
(* streamlit_app.py, the hit detection loop that follows it in each file,  *)
(* and the launch-angle bisection the specification describes.             *)
(*                                                                         *)
(* Numbers are integers on a grid.  Lengths are metres, time is counted in *)
(* integration steps and a velocity is the displacement of one step, so    *)
(* that "x += vx * dt" is x' = x + vx and "vy += ay * dt" is vy' = vy + ay.*)
(* Masses are grams and diameters millimetres, as simulate() receives      *)
(* them; the coefficients cd0 and cl0 are in thousandths; forces are in    *)
(* micronewtons.  A quotient is rounded towards zero (Quot), a square root *)
(* down (ISqrt); g = 9.80665 is 10 on this grid.                           *)
(* The two source files are the two values of the variable "variant".      *)
(***************************************************************************)
EXTENDS Integers, Sequences, FiniteSets, TLC

VARIABLES variant, arg, x, y, z, vx, vy, vz, xs, ys, zs, v_vectors, pc, hit, scan_i,
          target, s_lo, s_hi, s_mid, s_iter

simvars == <<x, y, z, vx, vy, vz, xs, ys, zs, v_vectors>>
hitvars == <<hit, scan_i>>
solvevars == <<target, s_lo, s_hi, s_mid, s_iter>>
vars == <<variant, arg, simvars, pc, hitvars, solvevars>>

(* -------- bounds of the model -------- *)
\* longest trajectory the model follows (the program has no such cap)
MaxSamples == 40

(* -------- program constants -------- *)
G == 10
XMAX == 165
FLOOR_DROP == 5
TARGET_X == 145
RHO_NUM == 49
RHO_DEN == 40
PI_NUM == 22
PI_DEN == 7
TAN_NUM == 15
TAN_DEN == 56
COS_NUM == 28
COS_DEN == 29
TARGET_H_CM == 267
TARGET_W_HALF == 1

(* -------- arithmetic of the grid -------- *)
Abs(n) == IF n < 0 THEN -n ELSE n

Sgn(n) == IF n < 0 THEN -1 ELSE IF n > 0 THEN 1 ELSE 0

\* a / b rounded towards zero (b # 0)
Quot(a, b) == Sgn(a) * Sgn(b) * (Abs(a) \div Abs(b))

RECURSIVE SqrtSearch(_, _, _)
SqrtSearch(n, lo, hi) ==
    IF lo >= hi THEN lo
    ELSE LET mid == (lo + hi + 1) \div 2
         IN IF mid * mid <= n THEN SqrtSearch(n, mid, hi)
                              ELSE SqrtSearch(n, lo, mid - 1)

\* math.sqrt, rounded down
ISqrt(n) == SqrtSearch(n, 0, 1000)

\* math.cos(math.radians(deg)) and math.sin(math.radians(deg)) in fifths;
\* 37 and 53 stand for the angles of the 3-4-5 triangle
Cos5(deg) ==
    CASE deg = 0 -> 5
      [] deg = 37 -> 4
      [] deg = 53 -> 3
      [] deg = 90 -> 0

Sin5(deg) ==
    CASE deg = 0 -> 0
      [] deg = 37 -> 3
      [] deg = 53 -> 4
      [] deg = 90 -> 5

(* -------- simulate(): set-up -------- *)
\* A = math.pi * (d / 2) ** 2, in square millimetres
Area(d_mm) == (PI_NUM * d_mm * d_mm) \div (4 * PI_DEN)

LaunchVx(a) == Quot(a.v0 * Cos5(a.theta) * Cos5(a.phi), 25)
LaunchVy(a) == Quot(a.v0 * Sin5(a.theta), 5)
LaunchVz(a) == Quot(a.v0 * Cos5(a.theta) * Sin5(a.phi), 25)

\* the height below which the loop stops: -5 in APP.py, target_dh - 5 in
\* streamlit_app.py
Floor(var, a) == IF var = "APP" THEN -FLOOR_DROP ELSE a.th - FLOOR_DROP

\* the while condition
LoopCondNoRange(var, a, xx, yy) == yy >= Floor(var, a)
LoopCond(var, a, xx, yy) == yy >= Floor(var, a) /\ xx <= XMAX

(* -------- simulate(): one iteration -------- *)
Vrx(a, vvx) == vvx - a.wx
Vrz(a, vvz) == vvz - a.wz

\* v = math.sqrt(vrx**2 + vry**2 + vrz**2)
Airspeed(a, vvx, vvy, vvz) ==
    ISqrt(Vrx(a, vvx) * Vrx(a, vvx) + vvy * vvy + Vrz(a, vvz) * Vrz(a, vvz))

\* v < 1e-6
Stalled(a, vvx, vvy, vvz) == Airspeed(a, vvx, vvy, vvz) < 1

\* Cd = cd0 * (1 + 0.15 * (v / 60) ** 2), in thousandths
Cd(a, v) == a.cd0 + (a.cd0 * 15 * v * v) \div (100 * 3600)

\* 0.5 * rho * c * A * v**2 in micronewtons, c in thousandths
Force(c, d_mm, v) ==
    ((((c * Area(d_mm)) * RHO_NUM) \div (2 * RHO_DEN)) * (v * v)) \div 1000

Fd(a, v) == Force(Cd(a, v), a.d, v)
Fl(a, v) == Force(a.cl0, a.d, v)

\* m * v of the divisions, micronewton over grams
MV(a, v) == 1000 * a.m * v

Ax(a, vvx, vvy, vvz) ==
    LET v == Airspeed(a, vvx, vvy, vvz)
    IN -Quot(Fd(a, v) * Vrx(a, vvx), MV(a, v))

Az(a, vvx, vvy, vvz) ==
    LET v == Airspeed(a, vvx, vvy, vvz)
    IN -Quot(Fd(a, v) * Vrz(a, vvz), MV(a, v))

Ay(a, vvx, vvy, vvz) ==
    LET v == Airspeed(a, vvx, vvy, vvz)
    IN -G - Quot(Fd(a, v) * vvy, MV(a, v)) + Quot(Fl(a, v), 1000 * a.m)

\* vx += ax * dt and the like
NewVx(a, vvx, vvy, vvz) == vvx + Ax(a, vvx, vvy, vvz)
NewVy(a, vvx, vvy, vvz) == vvy + Ay(a, vvx, vvy, vvz)
NewVz(a, vvx, vvy, vvz) == vvz + Az(a, vvx, vvy, vvz)

\* x += vx * dt and the like: old is the velocity before this iteration's
\* update, new the one after it
NewPosBeforeVelocity(p, old, new) == p + old
NewPos(p, old, new) == p + new

\* xs.append(x) and the like
Record(seq, val) == Append(seq, val)

\* v_vectors exists in streamlit_app.py only
RecordVForgotten(var, seq, val) == seq
RecordV(var, seq, val) == IF var = "STL" THEN Append(seq, val) ELSE seq

(* -------- inputs -------- *)
Variants == {"APP", "STL"}

\* arrows without lift: speed, angles, heights, wind, drag and mass vary
Ballistic ==
    [v0 : {0, 25, 50, 100}, theta : {0, 37, 53, 90}, phi : {0, 37},
     h0 : {1, 40}, th : {0, 2}, wx : {-15, 0}, wz : {0},
     cd0 : {0, 900}, cl0 : {0}, m : {0, 25}, d : {8}]

\* arrows with lift
Lifted ==
    [v0 : {25, 50}, theta : {0, 37}, phi : {0},
     h0 : {1}, th : {0}, wx : {-15, 0, 15}, wz : {0, 5},
     cd0 : {0, 900}, cl0 : {500}, m : {25}, d : {8}]

\* an arrow released at rest into a wind in which its lift is its weight
Hovering ==
    [v0 : {0}, theta : {0}, phi : {0},
     h0 : {1, 40}, th : {0}, wx : {-15, 0, 15}, wz : {0},
     cd0 : {0}, cl0 : {37000}, m : {25}, d : {8}]

Inputs == Ballistic \cup Lifted \cup Hovering

NoHit == [found |-> FALSE]

SimInit ==
    /\ variant \in Variants
    /\ arg \in Inputs
    /\ x = 0 /\ y = arg.h0 /\ z = 0
    /\ vx = LaunchVx(arg) /\ vy = LaunchVy(arg) /\ vz = LaunchVz(arg)
    /\ xs = <<x>> /\ ys = <<y>> /\ zs = <<z>>
    /\ v_vectors = IF variant = "STL" THEN << <<vx, vy, vz>> >> ELSE << >>
    /\ pc = "loop"
    /\ hit = NoHit /\ scan_i = 0
    /\ target = 0 /\ s_lo = 0 /\ s_hi = 0 /\ s_mid = 0 /\ s_iter = 0

(* -------- simulate(): the loop -------- *)
\* one iteration of the while loop that reaches the appends
Step ==
    /\ pc = "loop"
    /\ Len(xs) < MaxSamples
    /\ LoopCond(variant, arg, x, y)
    /\ ~Stalled(arg, vx, vy, vz)
    /\ arg.m # 0
    /\ vx' = NewVx(arg, vx, vy, vz)
    /\ vy' = NewVy(arg, vx, vy, vz)
    /\ vz' = NewVz(arg, vx, vy, vz)
    /\ x' = NewPos(x, vx, vx')
    /\ y' = NewPos(y, vy, vy')
    /\ z' = NewPos(z, vz, vz')
    /\ xs' = Record(xs, x')
    /\ ys' = Record(ys, y')
    /\ zs' = Record(zs, z')
    /\ v_vectors' = RecordV(variant, v_vectors, <<vx', vy', vz'>>)
    /\ UNCHANGED <<variant, arg, pc, hitvars, solvevars>>

\* the while condition is false: return xs, ys, zs
Exit ==
    /\ pc = "loop"
    /\ ~LoopCond(variant, arg, x, y)
    /\ pc' = "returned"
    /\ UNCHANGED <<variant, arg, simvars, hitvars, solvevars>>

\* if v < 1e-6: break
Break ==
    /\ pc = "loop"
    /\ LoopCond(variant, arg, x, y)
    /\ Stalled(arg, vx, vy, vz)
    /\ pc' = "returned"
    /\ UNCHANGED <<variant, arg, simvars, hitvars, solvevars>>

\* the division by m * v with m = 0: ZeroDivisionError leaves simulate
DivideByZero ==
    /\ pc = "loop"
    /\ LoopCond(variant, arg, x, y)
    /\ ~Stalled(arg, vx, vy, vz)
    /\ arg.m = 0
    /\ pc' = "raised"
    /\ UNCHANGED <<variant, arg, simvars, hitvars, solvevars>>

(* -------- hit detection -------- *)
\* indices of the pairs (i, i+1) the for loop visits; sample i of the
\* program is element i + 1 here
Pairs(sx) == 1 .. (Len(sx) - 1)

\* APP.py, target_plane_y(x) = target_h - tan(TILT) * (x - TARGET_X),
\* multiplied by TAN_DEN
PlaneY(a, xx) == TAN_DEN * a.th - TAN_NUM * (xx - TARGET_X)

\* APP.py: ys[i] >= y_plane and ys[i+1] <= y_plane
AppCond(a, sx, sy, i) ==
    /\ TAN_DEN * sy[i] >= PlaneY(a, sx[i])
    /\ TAN_DEN * sy[i + 1] <= PlaneY(a, sx[i])

\* streamlit_app.py, tx = t_base + (ys[i] - target_dh) * tan(tilt),
\* multiplied by TAN_DEN
PlaneX(a, yy) == TAN_DEN * TARGET_X + TAN_NUM * (yy - a.th)

\* streamlit_app.py: xs[i] <= tx <= xs[i+1]
StlCond(a, sx, sy, i) ==
    /\ TAN_DEN * sx[i] <= PlaneX(a, sy[i])
    /\ PlaneX(a, sy[i]) <= TAN_DEN * sx[i + 1]

Cond(var, a, sx, sy, i) ==
    IF var = "APP" THEN AppCond(a, sx, sy, i) ELSE StlCond(a, sx, sy, i)

Matches(var, a, sx, sy) == {i \in Pairs(sx) : Cond(var, a, sx, sy, i)}

Least(S) == CHOOSE i \in S : \A j \in S : i <= j

\* APP.py: r = (y_plane - ys[i]) / (ys[i+1] - ys[i]) as the fraction rn / den
\* with den > 0, and the hit point as fractions over den
AppHit(a, sx, sy, sz, i) ==
    LET dy == sy[i + 1] - sy[i]
        s == Sgn(dy)
        den == s * TAN_DEN * dy
        rn == s * (PlaneY(a, sx[i]) - TAN_DEN * sy[i])
    IN [found |-> TRUE, rn |-> rn, den |-> den,
        xn |-> sx[i] * den + rn * (sx[i + 1] - sx[i]),
        yn |-> sy[i] * den + rn * (sy[i + 1] - sy[i]),
        zn |-> sz[i] * den + rn * (sz[i + 1] - sz[i])]

\* streamlit_app.py: ay = (ys[i] - target_dh) / cos(tilt) as the fraction
\* yn / den, z = zs[i], and the flag 0 <= ay <= t_h and abs(zs[i]) <= t_w / 2
StlHit(a, sx, sy, sz, i) ==
    LET yn == COS_DEN * (sy[i] - a.th)
    IN [found |-> TRUE, yn |-> yn, den |-> COS_NUM, z |-> sz[i],
        hit |-> /\ 0 <= yn
                /\ 100 * yn <= TARGET_H_CM * COS_NUM
                /\ Abs(sz[i]) <= TARGET_W_HALF]

\* the for loop over range(len(xs) - 1), to its break or its end
Detect ==
    /\ pc = "returned"
    /\ LET M == Matches(variant, arg, xs, ys)
       IN IF M = {}
          THEN /\ hit' = NoHit
               /\ scan_i' = Len(xs) - 1
               /\ pc' = "detected"
          ELSE /\ scan_i' = Least(M)
               /\ IF variant = "STL"
                  THEN /\ hit' = StlHit(arg, xs, ys, zs, Least(M))
                       /\ pc' = "detected"
                  ELSE IF ys[Least(M) + 1] = ys[Least(M)]
                       THEN /\ hit' = NoHit
                            /\ pc' = "detect_raised"
                       ELSE /\ hit' = AppHit(arg, xs, ys, zs, Least(M))
                            /\ pc' = "detected"
    /\ UNCHANGED <<variant, arg, simvars, solvevars>>

(* -------- solveAngleForRange -------- *)
\* angles are in units of 1 / ANGLE_SCALE degree, distances in centimetres
ANGLE_SCALE == 33554432
ANGLE_LO == 2
ANGLE_HI == 25
TOLERANCE_CM == 5
MAX_ITERATIONS == 25
RANGE_DIV == 16384

Targets == {3000, 10000, 14500, 20000, 60000}

\* the final horizontal distance the integrator reaches at launch angle a:
\* here a distance that grows with the angle
RangeAt(a) == a \div RANGE_DIV

Error(a, t) == RangeAt(a) - t

MidpointNoHalving(lo, hi) == hi
Midpoint(lo, hi) == (lo + hi) \div 2

Converged(a, t) == Abs(Error(a, t)) < TOLERANCE_CM

\* the parameters the search holds fixed
ReferenceArrow ==
    [v0 |-> 50, theta |-> 0, phi |-> 0, h0 |-> 1, th |-> 0, wx |-> 0, wz |-> 0,
     cd0 |-> 900, cl0 |-> 0, m |-> 25, d |-> 8]

SolveInit ==
    /\ variant = "APP"
    /\ arg = ReferenceArrow
    /\ x = 0 /\ y = arg.h0 /\ z = 0
    /\ vx = LaunchVx(arg) /\ vy = LaunchVy(arg) /\ vz = LaunchVz(arg)
    /\ xs = <<x>> /\ ys = <<y>> /\ zs = <<z>>
    /\ v_vectors = << >>
    /\ hit = NoHit /\ scan_i = 0
    /\ pc = "solve"
    /\ target \in Targets
    /\ s_lo = ANGLE_LO * ANGLE_SCALE
    /\ s_hi = ANGLE_HI * ANGLE_SCALE
    /\ s_mid = 0
    /\ s_iter = 0

\* an iteration whose error is within the tolerance: return the midpoint
SolveConverge ==
    /\ pc = "solve"
    /\ s_iter < MAX_ITERATIONS
    /\ Converged(Midpoint(s_lo, s_hi), target)
    /\ s_mid' = Midpoint(s_lo, s_hi)
    /\ s_iter' = s_iter + 1
    /\ pc' = "solved"
    /\ UNCHANGED <<variant, arg, simvars, hitvars, target, s_lo, s_hi>>

\* an iteration whose error is not: move one end of the interval
SolveNarrow ==
    /\ pc = "solve"
    /\ s_iter < MAX_ITERATIONS
    /\ ~Converged(Midpoint(s_lo, s_hi), target)
    /\ s_mid' = Midpoint(s_lo, s_hi)
    /\ s_iter' = s_iter + 1
    /\ IF Error(s_mid', target) > 0
       THEN s_hi' = s_mid' /\ s_lo' = s_lo
       ELSE s_lo' = s_mid' /\ s_hi' = s_hi
    /\ UNCHANGED <<variant, arg, simvars, hitvars, target, pc>>

\* the iterations are used up: return the last midpoint
SolveExhausted ==
    /\ pc = "solve"
    /\ s_iter = MAX_ITERATIONS
    /\ pc' = "solved"
    /\ UNCHANGED <<variant, arg, simvars, hitvars, solvevars>>

(* -------- the system -------- *)
Init == SimInit \/ SolveInit

Next ==
    \/ Step
    \/ Exit
    \/ Break
    \/ DivideByZero
    \/ Detect
    \/ SolveConverge
    \/ SolveNarrow
    \/ SolveExhausted

Spec == Init /\ [][Next]_vars

(* ======================= the claims ======================= *)

Last(seq) == seq[Len(seq)]

Simulating == pc \in {"loop", "returned", "detected", "detect_raised", "raised"}

\* the loop ended at "if v < 1e-6: break"
EndedByUnderflow ==
    LoopCond(variant, arg, x, y) /\ Stalled(arg, vx, vy, vz)

(* ---- C1 ---- *)
Shape ==
    /\ Len(xs) >= 1
    /\ xs[1] = 0 /\ ys[1] = arg.h0 /\ zs[1] = 0
    /\ Len(ys) = Len(xs) /\ Len(zs) = Len(xs)
    /\ variant = "STL" => Len(v_vectors) = Len(xs)

OneSamplePerStep ==
    (pc = "loop" /\ pc' = "loop") =>
        /\ Len(xs') = Len(xs) + 1 /\ Last(xs') = x'
        /\ Len(ys') = Len(ys) + 1 /\ Last(ys') = y'
        /\ Len(zs') = Len(zs) + 1 /\ Last(zs') = z'
        /\ variant = "STL" => /\ Len(v_vectors') = Len(v_vectors) + 1
                              /\ Last(v_vectors') = <<vx', vy', vz'>>

\* C1: a returned trajectory is non-empty, its first sample is the launch
\* position (0, launch height, 0), xs, ys, zs (and v_vectors in
\* streamlit_app.py) have the same length, and every executed integration
\* step adds exactly one entry, the new position, to each of them.
C1_TrajectoryShape ==
    /\ [](pc = "returned" => Shape)
    /\ [][OneSamplePerStep]_vars

C1_Witness ==
    /\ pc = "returned" /\ variant = "STL"
    /\ Len(xs) >= 4 /\ Len(v_vectors) = Len(xs)

(* ---- C2 ---- *)
\* C2: the loop of simulate terminates for every input.  An iteration that
\* leaves position and velocity as they were, while the while condition
\* and the airspeed test let the loop go on, repeats for ever; so
\* termination requires every iteration to change the position or the
\* velocity.
C2_LoopTerminates ==
    [][(pc = "loop" /\ pc' = "loop") =>
          <<x, y, z, vx, vy, vz>>' # <<x, y, z, vx, vy, vz>>]_vars

(* ---- C3, C4, C5 ---- *)
\* the sign of f = y - plane(x) at a sample.  APP.py: the plane is
\* target_plane_y.  streamlit_app.py: the plane is x = tx(y), which is
\* y = target_dh + (x - t_base) / tan(tilt).
SignF(var, a, xx, yy) ==
    IF var = "APP" THEN Sgn(TAN_DEN * yy - PlaneY(a, xx))
                   ELSE Sgn(PlaneX(a, yy) - TAN_DEN * xx)

Crossings ==
    {i \in Pairs(xs) :
        SignF(variant, arg, xs[i], ys[i]) * SignF(variant, arg, xs[i + 1], ys[i + 1]) < 0}

\* C3: a hit is reported at the first pair (i, i+1) with f(i) * f(i+1) < 0,
\* whichever the direction of the sign change, and at no other pair.
C3_FirstSignChange ==
    pc = "detected" =>
        /\ hit.found <=> Crossings # {}
        /\ hit.found => scan_i = Least(Crossings)

AllStrictlyAbove ==
    \A i \in 1 .. Len(xs) : SignF(variant, arg, xs[i], ys[i]) > 0

AllStrictlyBelow ==
    \A i \in 1 .. Len(xs) : SignF(variant, arg, xs[i], ys[i]) < 0

\* C4: no hit is reported, and no error raised, when every sample lies
\* strictly above the plane or every sample lies strictly below it.
C4_AbsentWithoutCrossing ==
    (pc \in {"detected", "detect_raised"} /\ (AllStrictlyAbove \/ AllStrictlyBelow)) =>
        (pc = "detected" /\ ~hit.found)

\* the reported point lies on the plane (APP.py): y = target_plane_y(x),
\* both sides multiplied by TAN_DEN * den
OnPlane(h) ==
    TAN_DEN * h.yn = TAN_DEN * arg.th * h.den - TAN_NUM * (h.xn - TARGET_X * h.den)

\* the reported point is sample(i) + r * (sample(i+1) - sample(i)) with
\* 0 <= r <= 1.  APP.py computes it with r = rn / den.  streamlit_app.py
\* reports z = zs[i], which is r = 0 unless zs[i+1] = zs[i].
Interpolated(h, i) ==
    IF variant = "APP"
    THEN 0 <= h.rn /\ h.rn <= h.den
    ELSE \/ h.yn = h.den * ys[i]
         \/ /\ zs[i + 1] = zs[i]
            /\ \/ h.den * ys[i] <= h.yn /\ h.yn <= h.den * ys[i + 1]
               \/ h.den * ys[i + 1] <= h.yn /\ h.yn <= h.den * ys[i]

\* C5: a reported hit point is the linear interpolation of the two samples
\* of its pair with 0 <= r <= 1, and lies on the target plane.  (The grid's
\* fractions are exact, so "within 1e-6" is equality here.)
C5_HitOnPlane ==
    (pc = "detected" /\ hit.found) =>
        /\ Interpolated(hit, scan_i)
        /\ variant = "APP" => OnPlane(hit)

(* ---- C6 ---- *)
NoAir == arg.wx = 0 /\ arg.wz = 0 /\ arg.cl0 = 0 /\ arg.cd0 = 0

\* sample n (n = 0 is the launch) against y0 + vy * t - g * t^2 / 2 with
\* t = n steps, doubled
ClosedFormY(n) ==
    2 * ys[n + 1] = 2 * arg.h0 + 2 * n * LaunchVy(arg) - G * n * n

\* the same with the velocity updated before the position: the sum of
\* vy - g, vy - 2g, ..., vy - n g
SteppedY(n) ==
    2 * ys[n + 1] = 2 * arg.h0 + 2 * n * LaunchVy(arg) - G * n * (n + 1)

ClosedFormXZ(n) ==
    /\ xs[n + 1] = n * LaunchVx(arg)
    /\ zs[n + 1] = n * LaunchVz(arg)

\* C6 as stated: without wind, lift and drag every sample is on the closed
\* form y0 + vy t - g t^2 / 2, x = vx t, z = vz t.
C6_ClosedForm ==
    (Simulating /\ NoAir) =>
        \A n \in 0 .. (Len(xs) - 1) : ClosedFormY(n) /\ ClosedFormXZ(n)

\* C6 as amended: without wind, lift and drag, sample n is at x = vx t,
\* z = vz t and y = y0 + vy t - g t^2 / 2 - g dt t / 2 with t = n dt.
C6_SteppedForm ==
    (Simulating /\ NoAir) =>
        \A n \in 0 .. (Len(xs) - 1) : SteppedY(n) /\ ClosedFormXZ(n)

C6_Witness ==
    /\ pc = "returned" /\ NoAir
    /\ Len(xs) >= 5
    /\ LaunchVy(arg) > 0 /\ LaunchVx(arg) > 0 /\ LaunchVz(arg) > 0

(* ---- C7 ---- *)
\* C7: simulate has no failure outcome: it never leaves by an exception.
C7_NoFailure == pc # "raised"

(* ---- C9 ---- *)
Solving == pc \in {"solve", "solved"}

InInterval(a) == ANGLE_LO * ANGLE_SCALE <= a /\ a <= ANGLE_HI * ANGLE_SCALE

SolveInv ==
    Solving =>
        /\ InInterval(s_lo) /\ InInterval(s_hi) /\ s_lo <= s_hi
        /\ s_iter <= MAX_ITERATIONS
        /\ s_iter > 0 => InInterval(s_mid)
        /\ pc = "solved" =>
              /\ s_iter > 0
              /\ Converged(s_mid, target) \/ s_iter = MAX_ITERATIONS

SolveStep ==
    (pc = "solve" /\ s_iter' = s_iter + 1) =>
        /\ s_lo <= s_mid' /\ s_mid' <= s_hi
        /\ Converged(s_mid', target) => pc' = "solved"
        /\ ~Converged(s_mid', target) =>
              /\ pc' = "solve"
              /\ Error(s_mid', target) > 0 => (s_hi' = s_mid' /\ s_lo' = s_lo)
              /\ Error(s_mid', target) < 0 => (s_lo' = s_mid' /\ s_hi' = s_hi)
              /\ s_hi' - s_lo' < s_hi - s_lo

\* C9: every midpoint and the returned angle lie in [2, 25] degrees; a
\* positive error lowers the upper bound, a negative error raises the lower
\* bound; the search returns as soon as |error| < tolerance and otherwise
\* after exactly 25 refinements, with the last midpoint.
C9_Bisection ==
    /\ []SolveInv
    /\ [][SolveStep]_vars

C9_Witness ==
    /\ pc = "solved" /\ s_iter = MAX_ITERATIONS
    /\ ~Converged(s_mid, target)

(* ---- C10 ---- *)
InBounds(i) == ys[i] >= Floor(variant, arg) /\ xs[i] <= XMAX

\* C10: in a returned trajectory every sample but the last is inside the
\* stop policy's bounds (y >= floor and x <= 165), and the last is outside
\* them unless the loop ended by airspeed underflow.
C10_StopPolicy ==
    pc = "returned" =>
        /\ \A i \in 1 .. (Len(xs) - 1) : InBounds(i)
        /\ ~InBounds(Len(xs)) \/ EndedByUnderflow

C10_Witness ==
    /\ pc = "returned" /\ Len(xs) >= 4
    /\ xs[Len(xs)] > XMAX /\ ys[Len(xs)] >= Floor(variant, arg)

====
